---- MODULE Spec2Model ----
(***************************************************************************)
(* RedactifAI: the durable job runner (src/tasks.py), the request handler  *)
(* that creates jobs (src/api/main.py), the pipeline orchestrator          *)
(* (src/services/deidentification_service.py) and the two storage buckets; *)
(* and, each under a specification of its own, the entity matcher          *)
(* (src/services/entity_matcher.py), the PHI detection adapters            *)
(* (src/services/*_service.py), the local storage backend                  *)
(* (src/storage/local.py), one pipeline run batch by batch, and the read   *)
(* endpoints of the API.                                                   *)
(***************************************************************************)
EXTENDS Integers, FiniteSets, Sequences, TLC

\* ---------------------------------------------------------------- bounds
MaxFaults == 1
MaxPages == 6

\* ------------------------------------------------------ program constants
CELERY_TASK_MAX_RETRIES == 3
max_retries == CELERY_TASK_MAX_RETRIES
batch_size == 5

\* Jobs share no state (every key and row is job-keyed): one job id is
\* followed, through create_job or delivered without a row.
JobIds == {"j1"}
\* Two workers: enough for a redelivered message to run beside the attempt
\* that still holds it.
Workers == {"w1", "w2"}

PENDING == "pending"
PROCESSING == "processing"
COMPLETE == "complete"
FAILED == "failed"
JobStatus == {PENDING, PROCESSING, COMPLETE, FAILED}

\* ------------------------------------------------------------- documents
\* An uploaded document: its page count and whether its bytes decode.
PageCounts == {1, MaxPages}
Documents == [pages : PageCounts, malformed : {FALSE}]
             \cup {[pages |-> 1, malformed |-> TRUE]}
NoObject == [pages |-> 0, malformed |-> FALSE]
NoOutput == [present |-> FALSE, pages |-> 0, unmasked |-> {}]

\* --------------------------------------------------------------- job rows
\* phi_entities: the job has child rows in the PHI-entity table.
NoRow == [status |-> "absent", retry_count |-> 0, completed_at |-> FALSE,
          error_message |-> "none", output_key |-> FALSE,
          phi_entities |-> FALSE]

NewJob == [status |-> PENDING, retry_count |-> 0, completed_at |-> FALSE,
           error_message |-> "none", output_key |-> FALSE,
           phi_entities |-> FALSE]

\* ---------------------------------------------------------------- storage
StorageUpload(store, key, data) == [store EXCEPT ![key] = data]

StorageDeleteKeep(store, key, empty) == store

StorageDelete(store, key, empty) == [store EXCEPT ![key] = empty]

\* --------------------------------------------------------------- pipeline
Stages == {"ocr", "detect", "match", "mask", "save"}

num_batches(total_pages) == (total_pages + batch_size - 1) \div batch_size

Failure(cause) ==
    [status |-> "failure", pages_processed |-> 0, unmasked |-> {},
     errors |-> TRUE, cause |-> cause]

\* _process_single_batch: a raising stage propagates to the caller.
process_single_batch(doc, stage) ==
    IF stage # "none"
    THEN Failure("StageError")
    ELSE [status |-> "success", pages_processed |-> doc.pages,
          unmasked |-> {}, errors |-> FALSE, cause |-> "none"]

\* _process_batched: a raising batch is recorded in errors, its pages are
\* written unmasked and the run still reports success; only an exception
\* outside the per-batch try (stage = "save": temp file, writer, read-back)
\* propagates.
process_batched(doc, stage, bad) ==
    IF stage = "save"
    THEN Failure("StageError")
    ELSE [status |-> "success", pages_processed |-> doc.pages,
          unmasked |-> bad \cap (0..(num_batches(doc.pages) - 1)),
          errors |-> (bad \cap (0..(num_batches(doc.pages) - 1))) # {},
          cause |-> "none"]

\* deidentify_document: every exception becomes a "failure" result.
deidentify_document(doc, stage, bad) ==
    IF doc.malformed
    THEN Failure("FormatError")
    ELSE IF doc.pages <= batch_size
         THEN process_single_batch(doc, stage)
         ELSE process_batched(doc, stage, bad)

\* ------------------------------------------------------------ task steps
\* The order of the storage and database steps of one attempt.
TaskStepsDeleteFirst == <<"download", "pipeline", "delete", "upload", "complete">>

TaskSteps == <<"download", "pipeline", "upload", "delete", "complete">>

RECURSIVE IndexOf(_, _, _)
IndexOf(seq, x, i) ==
    IF i > Len(seq) THEN 0
    ELSE IF seq[i] = x THEN i ELSE IndexOf(seq, x, i + 1)

NextStep(step) == TaskSteps[IndexOf(TaskSteps, step, 1) + 1]

\* The handler's "last retry" test (marks the row FAILED).
LastRetry(retries) == retries + 1 >= CELERY_TASK_MAX_RETRIES

\* The queue's retry decision for autoretry_for=(Exception,): a failed
\* attempt number `retries` is re-published unless retries + 1 > max_retries.
WillRetry(retries) == ~(retries + 1 > max_retries)

Message(j, r) == [job |-> j, retries |-> r]

Idle == [pc |-> "idle", job |-> "none", retries |-> 0, err |-> "none",
         uploaded |-> FALSE, document_bytes |-> NoObject, unmasked |-> {}]

Running == {"download", "pipeline", "upload", "delete", "complete"}

\* ==================================================================
\* Entity matcher (src/services/entity_matcher.py) and its domain model
\* (src/models/domain.py).  A text is a sequence of one-character strings.
\* ==================================================================
MaxWords == 3

fuzzy_match_threshold == 2
confidence_threshold == 0
box_padding_px == 5

Min2(a, b) == IF a <= b THEN a ELSE b

Max2(a, b) == IF a >= b THEN a ELSE b

SetMin(S) == CHOOSE m \in S : \A n \in S : m <= n

SetMax(S) == CHOOSE m \in S : \A n \in S : m >= n

\* ------------------------------------------------------------- str methods
isspace(c) == c = " "

lower_char(c) ==
    CASE c = "J" -> "j" [] c = "O" -> "o" [] c = "E" -> "e" [] OTHER -> c

lower(s) == [i \in 1..Len(s) |-> lower_char(s[i])]

RECURSIVE lstrip(_)
lstrip(s) == IF s # <<>> /\ isspace(Head(s)) THEN lstrip(Tail(s)) ELSE s

RECURSIVE rstrip(_)
rstrip(s) ==
    IF s # <<>> /\ isspace(s[Len(s)]) THEN rstrip(SubSeq(s, 1, Len(s) - 1)) ELSE s

strip(s) == rstrip(lstrip(s))

\* Python's `sub in s`.
contains(sub, s) ==
    \E i \in 0..(Len(s) - Len(sub)) : SubSeq(s, i + 1, i + Len(sub)) = sub

RECURSIVE join(_, _)
join(texts, sep) ==
    IF texts = <<>> THEN <<>>
    ELSE IF Len(texts) = 1 THEN texts[1]
    ELSE texts[1] \o sep \o join(Tail(texts), sep)

\* Levenshtein.distance: the edit distance (insert, delete, substitute), row
\* by row; cell k of a row is kept at index k + 1.
RECURSIVE LevenshteinRow(_, _, _, _)
LevenshteinRow(prev, c, b, cur) ==
    IF Len(cur) = Len(b) + 1 THEN cur
    ELSE LET j == Len(cur)
             cell == Min2(Min2(prev[j + 1] + 1, cur[j] + 1),
                          prev[j] + (IF c = b[j] THEN 0 ELSE 1))
         IN LevenshteinRow(prev, c, b, Append(cur, cell))

RECURSIVE LevenshteinRows(_, _, _)
LevenshteinRows(a, b, prev) ==
    IF a = <<>> THEN prev[Len(b) + 1]
    ELSE LevenshteinRows(Tail(a), b,
                         LevenshteinRow(prev, Head(a), b, <<prev[1] + 1>>))

Levenshtein_distance(a, b) ==
    LevenshteinRows(a, b, [k \in 1..(Len(b) + 1) |-> k - 1])

\* ------------------------------------------------------------ domain model
\* PHIEntity.__post_init__: offset, length and confidence are validated, the
\* text is not.
ValidPHIEntity(e) ==
    /\ e.offset >= 0
    /\ e.length > 0
    /\ 0 <= e.confidence /\ e.confidence <= 100

end_offset(entity) == entity.offset + entity.length

\* MaskRegion.__post_init__
ValidMaskRegion(r) ==
    /\ r.page >= 1
    /\ 0 <= r.confidence /\ r.confidence <= 100
    /\ r.bounding_box.page = r.page

\* WordOffset.overlaps_range
overlaps_range(wo, start, end) ==
    ~(wo.end_offset <= start \/ end <= wo.start_offset)

\* ----------------------------------------------------- _build_offset_map
WordNotFound == [found |-> FALSE, offset |-> 0, length |-> 0]

\* _find_word_in_text: exact match at start_offset, else the shortest prefix
\* of the search window, of a length in range(max(1, n - 2), min(window, n + 3)),
\* within the fuzzy threshold of the word.
find_word_in_text(text, word, start_offset) ==
    IF word = <<>> THEN WordNotFound
    ELSE LET word_len == Len(word)
             search_window == Min2(word_len + 5, Len(text) - start_offset)
             substring == SubSeq(text, start_offset + 1,
                                 start_offset + search_window)
             lengths ==
                 {n \in Max2(1, word_len - 2)..
                        (Min2(Len(substring), word_len + 3) - 1) :
                     /\ strip(SubSeq(substring, 1, n)) # <<>>
                     /\ Levenshtein_distance(word, SubSeq(substring, 1, n))
                            <= fuzzy_match_threshold}
         IN IF /\ start_offset + word_len <= Len(text)
               /\ SubSeq(text, start_offset + 1, start_offset + word_len) = word
            THEN [found |-> TRUE, offset |-> start_offset, length |-> word_len]
            ELSE IF search_window > 0 /\ lengths # {}
            THEN [found |-> TRUE, offset |-> start_offset,
                  length |-> SetMin(lengths)]
            ELSE WordNotFound

RECURSIVE all_words(_)
all_words(pages) ==
    IF pages = <<>> THEN <<>> ELSE Head(pages).words \o all_words(Tail(pages))

skip_whitespaceNone(full_text, current_offset) == current_offset

RECURSIVE skip_whitespace(_, _)
skip_whitespace(full_text, current_offset) ==
    IF current_offset < Len(full_text) /\ isspace(full_text[current_offset + 1])
    THEN skip_whitespace(full_text, current_offset + 1)
    ELSE current_offset

\* The while loop of _build_offset_map (word_index counts from 0).
RECURSIVE offset_map_loop(_, _, _, _, _)
offset_map_loop(full_text, words, word_index, current_offset, offset_map) ==
    IF ~(word_index < Len(words) /\ current_offset < Len(full_text))
    THEN offset_map
    ELSE LET at == skip_whitespace(full_text, current_offset)
             word == words[word_index + 1]
             match == find_word_in_text(full_text, strip(word.text), at)
         IN IF at >= Len(full_text) THEN offset_map
            ELSE IF match.found
            THEN offset_map_loop(full_text, words, word_index + 1,
                     match.offset + match.length,
                     Append(offset_map,
                            [word |-> word, start_offset |-> match.offset,
                             end_offset |-> match.offset + match.length]))
            ELSE offset_map_loop(full_text, words, word_index + 1, at,
                                 offset_map)

build_offset_map(ocr) ==
    offset_map_loop(ocr.full_text, all_words(ocr.pages), 0, 0, <<>>)

\* ------------------------------------------------ _find_overlapping_words
word_texts(word_offsets) ==
    [i \in 1..Len(word_offsets) |-> word_offsets[i].word.text]

\* The words whose span overlaps the entity's character range.
overlapping_words(entity, offset_map) ==
    SelectSeq(offset_map,
              LAMBDA wo : overlaps_range(wo, entity.offset, end_offset(entity)))

combined_text(overlapping) == join(word_texts(overlapping), <<" ">>)

max_distanceThresholdOnly(entity_text) == fuzzy_match_threshold

max_distance(entity_text) ==
    Max2(Len(entity_text) \div 3, fuzzy_match_threshold)

\* The validation of the overlapping words against the entity text.
rejected(entity, overlapping) ==
    Levenshtein_distance(lower(combined_text(overlapping)),
                         lower(strip(entity.text)))
        > max_distance(strip(entity.text))

\* What offset matching contributes: the overlapping words, or nothing when
\* their text is too different from the entity text.
offset_match(entity, offset_map) ==
    LET overlapping == overlapping_words(entity, offset_map)
    IN IF overlapping # <<>> /\ rejected(entity, overlapping)
       THEN <<>>
       ELSE overlapping

\* Is word_offset a candidate of the fuzzy search for entity_text?
is_candidate(word_offset, entity_text) ==
    LET word_text == lower(strip(word_offset.word.text))
    IN \/ contains(word_text, entity_text)
       \/ contains(entity_text, word_text)
       \/ Levenshtein_distance(word_text, entity_text) <= fuzzy_match_threshold

fuzzy_search_for_entity(entity, offset_map, full_text) ==
    SelectSeq(offset_map,
              LAMBDA wo : is_candidate(wo, lower(strip(entity.text))))

\* The guard of the fallback: offset matching gave nothing and the entity
\* text appears in full_text.
uses_fallback(entity, offset_map, full_text) ==
    /\ offset_match(entity, offset_map) = <<>>
    /\ contains(lower(entity.text), lower(full_text))

find_overlapping_words(entity, offset_map, full_text) ==
    IF uses_fallback(entity, offset_map, full_text)
    THEN fuzzy_search_for_entity(entity, offset_map, full_text)
    ELSE offset_match(entity, offset_map)

\* ------------------------------------------------ grouping and box merging
\* The keys of the by_page dict, in insertion order.
RECURSIVE page_keys(_, _)
page_keys(word_offsets, keys) ==
    IF word_offsets = <<>> THEN keys
    ELSE LET page == Head(word_offsets).word.bounding_box.page
         IN page_keys(Tail(word_offsets),
                      IF \E i \in 1..Len(keys) : keys[i] = page
                      THEN keys ELSE Append(keys, page))

group_by_pageFirstPage(word_offsets) ==
    IF word_offsets = <<>> THEN <<>>
    ELSE <<[page |-> word_offsets[1].word.bounding_box.page,
            words |-> word_offsets]>>

group_by_page(word_offsets) ==
    LET keys == page_keys(word_offsets, <<>>)
    IN [i \in 1..Len(keys) |->
          [page |-> keys[i],
           words |-> SelectSeq(word_offsets,
                        LAMBDA wo : wo.word.bounding_box.page = keys[i])]]

merge_bounding_boxesNoClamp(word_offsets) ==
    LET boxes == {word_offsets[i].word.bounding_box : i \in 1..Len(word_offsets)}
        min_x == SetMin({b.x : b \in boxes}) - box_padding_px
        min_y == SetMin({b.y : b \in boxes}) - box_padding_px
        max_x == SetMax({b.x + b.width : b \in boxes}) + box_padding_px
        max_y == SetMax({b.y + b.height : b \in boxes}) + box_padding_px
    IN [page |-> word_offsets[1].word.bounding_box.page,
        x |-> min_x, y |-> min_y,
        width |-> max_x - min_x, height |-> max_y - min_y]

merge_bounding_boxes(word_offsets) ==
    LET boxes == {word_offsets[i].word.bounding_box : i \in 1..Len(word_offsets)}
        min_x == Max2(0, SetMin({b.x : b \in boxes}) - box_padding_px)
        min_y == Max2(0, SetMin({b.y : b \in boxes}) - box_padding_px)
        max_x == SetMax({b.x + b.width : b \in boxes}) + box_padding_px
        max_y == SetMax({b.y + b.height : b \in boxes}) + box_padding_px
    IN [page |-> word_offsets[1].word.bounding_box.page,
        x |-> min_x, y |-> min_y,
        width |-> max_x - min_x, height |-> max_y - min_y]

\* ------------------------------------------------ match_entities_to_boxes
\* The regions appended for one entity: none when its confidence is below
\* the threshold or no word was found, else one per page of its words.
entity_regions(entity, offset_map, full_text) ==
    LET words_by_page ==
            group_by_page(find_overlapping_words(entity, offset_map, full_text))
    IN IF entity.confidence < confidence_threshold
       THEN <<>>
       ELSE [i \in 1..Len(words_by_page) |->
               [page |-> words_by_page[i].page,
                bounding_box |-> merge_bounding_boxes(words_by_page[i].words),
                entity_category |-> entity.category,
                confidence |-> entity.confidence]]

RECURSIVE regions_loop(_, _, _)
regions_loop(entities, offset_map, full_text) ==
    IF entities = <<>> THEN <<>>
    ELSE entity_regions(Head(entities), offset_map, full_text)
         \o regions_loop(Tail(entities), offset_map, full_text)

match_entities_to_boxes(ocr, entities) ==
    regions_loop(entities, build_offset_map(ocr), ocr.full_text)

\* ---------------------------------------------- inputs of a matcher call
\* The words of a document: the text as printed (it goes to full_text) and
\* the text as OCR read it ("j0e" is a misread "joe").
Tokens ==
    {[printed |-> <<"j", "o", "e">>, text |-> <<"j", "o", "e">>],
     [printed |-> <<"a", "b">>, text |-> <<"a", "b">>],
     [printed |-> <<"j", "o", "e">>, text |-> <<"j", "0", "e">>]}

TokenSeqs == UNION {[1..n -> Tokens] : n \in 1..MaxWords}

\* full_text separates the words by one or by two spaces.
Separators == {<<" ">>, <<" ", " ">>}

\* The box of the first word of each page; the words of a page stand on one
\* line.
Origins == <<[x |-> 100, y |-> 200], [x |-> 3, y |-> 2]>>

OCRWordAt(token, page, column) ==
    [text |-> token.text,
     bounding_box |-> [page |-> page, x |-> Origins[page].x + 60 * (column - 1),
                       y |-> Origins[page].y, width |-> 50,
                       height |-> 14 + 2 * Len(token.text)]]

\* An OCR result whose first `first` words are on page 1 and the others on
\* page 2 (page numbers are sequential from 1).
MakeOCRResult(tokens, first, sep) ==
    LET page1 == [page_number |-> 1,
                  words |-> [i \in 1..first |-> OCRWordAt(tokens[i], 1, i)]]
        page2 == [page_number |-> 2,
                  words |-> [i \in 1..(Len(tokens) - first) |->
                               OCRWordAt(tokens[first + i], 2, i)]]
    IN [pages |-> IF first = Len(tokens) THEN <<page1>> ELSE <<page1, page2>>,
        full_text |-> join([i \in 1..Len(tokens) |-> tokens[i].printed], sep)]

NoOCRResult == [pages |-> <<>>, full_text |-> <<>>]

\* Besides the results whose transcript holds every word: one-page results
\* whose transcript lacks the first word.
OCRResults ==
    {MakeOCRResult(q[1], q[2], q[3]) :
        q \in {p \in TokenSeqs \X (0..MaxWords) \X Separators :
                  p[2] <= Len(p[1])}}
    \cup {[MakeOCRResult(t, Len(t), <<" ">>) EXCEPT
              !.full_text = MakeOCRResult(Tail(t), 0, <<" ">>).full_text] :
            t \in {u \in TokenSeqs : Len(u) >= 2}}

EntityTexts ==
    {<<"j", "o", "e">>, <<"J", "O", "E">>, <<"J">>, <<>>, <<"a", "b">>,
     <<" ", " ", "j", "o", "e", " ">>,
     <<"j", "o", "e", " ", "a", "b">>,
     <<"j", "o", "e", " ", "a", "b", " ", "j", "o", "e">>}

\* Offset 20 lies behind every full_text (a phantom offset).
EntityOffsets == {0, 4, 20}

\* The detector reports the length of the text it returns; an empty text
\* comes with any positive length.
PHIEntities ==
    {e \in [text : EntityTexts, category : {"Person"}, offset : EntityOffsets,
            length : 1..10, confidence : {95}] :
        /\ ValidPHIEntity(e)
        /\ IF e.text = <<>> THEN e.length \in {1, 2} ELSE e.length = Len(e.text)}

\* ------------------------------------------- pipeline: steps 3 and 4
\* What the detector returned for a batch: at most two entities, sorted by
\* offset.  "bob" is in no full_text and its offset is behind every text.
DetectedEntities ==
    {[text |-> <<"j", "o", "e", " ", "a", "b">>, category |-> "Person",
      offset |-> 0, length |-> 6, confidence |-> 95],
     [text |-> <<"j", "o", "e">>, category |-> "Person",
      offset |-> 0, length |-> 3, confidence |-> 95],
     [text |-> <<"b", "o", "b">>, category |-> "Person",
      offset |-> 20, length |-> 3, confidence |-> 95]}

DetectedLists ==
    {<<e>> : e \in DetectedEntities}
    \cup {<<p[1], p[2]>> :
            p \in {q \in DetectedEntities \X DetectedEntities :
                      q[1].offset <= q[2].offset}}

NoResult == [status |-> "none", pages_processed |-> 0,
             phi_entities_count |-> 0, errors |-> <<>>]

unmatched_count(entities, regions) == Len(entities) - Len(regions)

\* The unmatched-entity check after step 4: the warning appended to errors.
unmatched_warning(entities, regions, warning) ==
    IF unmatched_count(entities, regions) > 0 THEN <<warning>> ELSE <<>>

\* The result of a run all of whose stages returned.
SuccessResult(ocr, entities, regions, warning) ==
    [status |-> "success", pages_processed |-> Len(ocr.pages),
     phi_entities_count |-> Len(entities),
     errors |-> unmatched_warning(entities, regions, warning)]

\* ==================================================================
\* PHI detector adapters: level filtering in detect_phi
\* (src/services/*_phi_detection_service.py, aws_comprehend_medical_service.py)
\* ==================================================================
MaxDetected == 2

SAFE_HARBOR == "safe_harbor"
LIMITED_DATASET == "limited_dataset"
CUSTOM == "custom"
MaskingLevel == {SAFE_HARBOR, LIMITED_DATASET, CUSTOM}

Adapters == {"azure", "aws", "mock"}

\* The class attribute PROVIDER_CATEGORIES of the Azure and AWS adapters; the
\* mock uses the set in the base class's _should_include_entity.
PROVIDER_CATEGORIES(adapter) ==
    CASE adapter = "azure" -> {"PersonType", "Organization"}
      [] adapter = "aws" -> {"NAME"}
      [] adapter = "mock" -> {"HealthcareProfessional", "Doctor", "Physician",
                              "Organization", "Hospital"}

\* The categories a provider reports (a sample of each).
Categories(adapter) ==
    CASE adapter = "azure" -> {"Person", "PersonType", "Organization", "Date"}
      [] adapter = "aws" -> {"NAME", "DATE", "ID"}
      [] adapter = "mock" -> {"Person", "HealthcareProfessional", "Date"}

\* The configured custom_phi_categories; the mock takes none.
CustomCategories(adapter) ==
    CASE adapter = "azure" -> {{}, {"Person"}, {"Person", "Organization"}}
      [] adapter = "aws" -> {{}, {"NAME"}, {"DATE", "ID"}}
      [] adapter = "mock" -> {{}}

\* One entity of a provider response.  Traits and Attributes are reported by
\* Comprehend Medical only (here: for names).
ProviderEntities(adapter) ==
    {e \in [category : Categories(adapter), begin : {0, 5}, end : {9},
            traits : {{}, {"DIAGNOSIS"}}, attributes : {{}, {"DIRECTION"}}] :
        (adapter # "aws" \/ e.category # "NAME")
            => e.traits = {} /\ e.attributes = {}}

Responses(adapter) ==
    UNION {[1..n -> ProviderEntities(adapter)] : n \in 0..MaxDetected}

\* PHIDetectionService._should_include_entity (used by the mock)
base_should_include_entity(category, masking_level) ==
    IF masking_level = SAFE_HARBOR THEN TRUE
    ELSE IF masking_level = LIMITED_DATASET
    THEN category \notin PROVIDER_CATEGORIES("mock")
    ELSE TRUE

\* AzurePHIDetectionService._should_include_entity
azure_should_include_entity(category, masking_level, custom) ==
    IF masking_level = SAFE_HARBOR THEN TRUE
    ELSE IF masking_level = LIMITED_DATASET
    THEN category \notin PROVIDER_CATEGORIES("azure")
    ELSE IF custom = {} THEN TRUE
    ELSE category \in custom

\* AWSComprehendMedicalService._should_include_entity_with_attributes
should_include_entity_with_attributes(aws_entity, masking_level, custom) ==
    IF masking_level = SAFE_HARBOR THEN TRUE
    ELSE IF masking_level = LIMITED_DATASET
    THEN IF aws_entity.category = "NAME"
         THEN IF aws_entity.traits \cap {"DIAGNOSIS", "SIGN", "SYMPTOM"} # {}
              THEN FALSE
              ELSE IF "DIRECTION" \in aws_entity.attributes
              THEN FALSE
              ELSE TRUE
         ELSE TRUE
    ELSE IF custom = {} THEN TRUE
    ELSE aws_entity.category \in custom

should_include(adapter, entity, masking_level, custom) ==
    CASE adapter = "azure" ->
             azure_should_include_entity(entity.category, masking_level, custom)
      [] adapter = "aws" ->
             should_include_entity_with_attributes(entity, masking_level, custom)
      [] adapter = "mock" ->
             base_should_include_entity(entity.category, masking_level)

\* The PHIEntity built from a provider entity.
ToPHIEntity(entity) ==
    [category |-> entity.category, offset |-> entity.begin,
     length |-> entity.end - entity.begin]

\* list.sort(key=lambda e: e.offset): a stable sort by offset.
RECURSIVE sort_by_offset(_)
sort_by_offset(entities) ==
    IF entities = <<>> THEN <<>>
    ELSE LET least == SetMin({entities[i].offset : i \in 1..Len(entities)})
         IN SelectSeq(entities, LAMBDA e : e.offset = least)
            \o sort_by_offset(SelectSeq(entities, LAMBDA e : e.offset # least))

detect_phi(adapter, resp, masking_level, custom) ==
    LET included == SelectSeq(resp,
                       LAMBDA e : should_include(adapter, e, masking_level, custom))
    IN sort_by_offset([i \in 1..Len(included) |-> ToPHIEntity(included[i])])

\* ==================================================================
\* Local storage backend (src/storage/local.py).  A path is the sequence of
\* its components from the filesystem root; a key is relative or absolute.
\* ==================================================================
MaxKeyLen == 2

Root == <<>>

base_path == <<"data">>

\* The one symbolic link of the filesystem: data/link -> /
IsLink(path) == path = <<"data", "link">>

LinkTarget(path) == Root

parent(path) == IF path = <<>> THEN <<>> ELSE SubSeq(path, 1, Len(path) - 1)

Components == {"a", "..", "link"}

\* Keys that go down into a directory "b" and up again: one stays inside
\* the base path, one leaves it.
TraversalKeys ==
    {[absolute |-> FALSE, parts |-> <<"b", "..", "a">>],
     [absolute |-> FALSE, parts |-> <<"b", "..", "..", "a">>]}

Keys ==
    [absolute : BOOLEAN,
     parts : UNION {[1..n -> Components] : n \in 1..MaxKeyLen}]
        \cup TraversalKeys

\* The filesystem at start: the file /a outside the base path, the file
\* data/a inside it.
InitialFiles == {<<"a">>, <<"data", "a">>}

InitialDirs == {Root, base_path}

\* self.base_path / key: an absolute key replaces the base path.
full_path(key) == IF key.absolute THEN key.parts ELSE base_path \o key.parts

\* Path.resolve() (not strict): symbolic links are followed and ".." removes
\* the component before it.
RECURSIVE resolve(_, _)
resolve(done, rest) ==
    IF rest = <<>> THEN done
    ELSE IF Head(rest) = ".." THEN resolve(parent(done), Tail(rest))
    ELSE IF IsLink(Append(done, Head(rest)))
    THEN resolve(LinkTarget(Append(done, Head(rest))), Tail(rest))
    ELSE resolve(Append(done, Head(rest)), Tail(rest))

\* PurePath.relative_to(base) does not raise.
is_relative_to(path, base) ==
    Len(path) >= Len(base) /\ SubSeq(path, 1, Len(base)) = base

\* The check of _get_full_path passes.
within_baseUnresolved(key) == is_relative_to(full_path(key), base_path)

within_base(key) ==
    is_relative_to(resolve(Root, full_path(key)), resolve(Root, base_path))

\* The operating system's walk along a path, from directory `cur`: where it
\* ends and on what ("file", "dir", "missing", or "error" when a component
\* before the last is a file or missing).
RECURSIVE walk(_, _, _)
walk(fs, cur, rest) ==
    IF rest = <<>> THEN [kind |-> "dir", at |-> cur]
    ELSE LET c == Head(rest)
             next == IF c = ".." THEN parent(cur)
                     ELSE IF IsLink(Append(cur, c)) THEN LinkTarget(Append(cur, c))
                     ELSE Append(cur, c)
         IN IF next \in fs.dirs THEN walk(fs, next, Tail(rest))
            ELSE IF Tail(rest) # <<>> THEN [kind |-> "error", at |-> next]
            ELSE IF next \in fs.files THEN [kind |-> "file", at |-> next]
            ELSE [kind |-> "missing", at |-> next]

\* Path.mkdir(parents=True, exist_ok=True): the missing directories along
\* the path are created; a component that is a file makes it raise.
RECURSIVE mkdir(_, _, _)
mkdir(fs, cur, rest) ==
    IF rest = <<>> THEN [ok |-> TRUE, dirs |-> fs.dirs]
    ELSE LET c == Head(rest)
             next == IF c = ".." THEN parent(cur)
                     ELSE IF IsLink(Append(cur, c)) THEN LinkTarget(Append(cur, c))
                     ELSE Append(cur, c)
         IN IF next \in fs.files THEN [ok |-> FALSE, dirs |-> fs.dirs]
            ELSE mkdir([fs EXCEPT !.dirs = @ \cup {next}], next, Tail(rest))

NoCall == [op |-> "none", key |-> [absolute |-> FALSE, parts |-> <<"a">>],
           raised |-> "none", touched |-> {}]

Call(op, key, raised, touched) ==
    [op |-> op, key |-> key, raised |-> raised, touched |-> touched]

\* ==================================================================
\* One pipeline run over a document of total_pages pages (steps 2 to 6 of
\* src/services/deidentification_service.py).  An image is the number of
\* the input page it shows; a mask region is the page number the matcher
\* gave it.
\* ==================================================================
BatchFaults == {"none", "ocr", "detect", "match", "mask", "write"}

NoRun == [pc |-> "unused", total_pages |-> 0, batch_num |-> 0,
          output |-> <<>>, mask_regions |-> <<>>, produced |-> <<>>,
          errors |-> 0, status |-> "none", pages_processed |-> 0]

\* The regions the matcher returns for an OCR result whose pages in
\* phi_pages hold a matched entity: OCR pages are numbered from 1 within
\* the bytes that were analysed.
RunRegions(n, phi_pages) ==
    LET RECURSIVE upto(_)
        upto(i) == IF i = 0 THEN <<>>
                   ELSE IF i \in phi_pages THEN Append(upto(i - 1), [page |-> i])
                   ELSE upto(i - 1)
    IN upto(n)

\* ImageMaskingService.apply_masks: image number page_num (from 1) gets the
\* regions whose page is page_num.
apply_masks(images, regions) ==
    [page_num \in 1..Len(images) |->
        [source |-> images[page_num],
         masked |-> \E r \in 1..Len(regions) : regions[r].page = page_num]]

\* The pages written unmasked by the fallback of a failed batch.
unmasked_copies(images) ==
    [i \in 1..Len(images) |-> [source |-> images[i], masked |-> FALSE]]

\* The PHI-entity rows the task builds from a result (tasks.py): each
\* entity gets the page and box of the first region of its category, or
\* page 1 and an empty box at the origin when there is none.
entity_rows(entities, regions) ==
    [i \in 1..Len(entities) |->
        LET same_category == {r \in 1..Len(regions) :
                regions[r].entity_category = entities[i].category}
        IN IF same_category = {}
           THEN [offset |-> entities[i].offset, length |-> entities[i].length,
                 page |-> 1, bbox |-> [x |-> 0, y |-> 0, width |-> 0, height |-> 0]]
           ELSE LET mask_region == regions[SetMin(same_category)]
                IN [offset |-> entities[i].offset, length |-> entities[i].length,
                    page |-> mask_region.page,
                    bbox |-> [x |-> mask_region.bounding_box.x,
                              y |-> mask_region.bounding_box.y,
                              width |-> mask_region.bounding_box.width,
                              height |-> mask_region.bounding_box.height]]]

\* ==================================================================
\* The read endpoints of the API (src/api/main.py)
\* ==================================================================
NoRequest == [endpoint |-> "none", code |-> 0, body |-> NoOutput,
              read_clean |-> FALSE, read_phi |-> FALSE]

VARIABLES
    api,            \* create_job: position of the request for each job id
    job_table,      \* the jobs table: one row (or NoRow) per job id
    phi_storage,    \* PHI bucket: input/<job_id>.tiff
    clean_storage,  \* clean bucket: masked/<job_id>.tiff
    queue,          \* broker: messages ready for delivery
    worker,         \* per worker: the attempt it is executing
    faults,         \* number of worker losses / redeliveries so far
    ocr_result,     \* matcher call: the OCR result (pages of words, full_text)
    phi_entities,   \* matcher call: the detected entities
    overlapping,    \* matcher call: per entity, the words found for it
    mask_regions,   \* matcher call: the returned mask regions
    matcher_pc,     \* matcher: "unused", "called" or "returned"; in a
                    \* pipeline run "single_batch" or "batch" before step 4
    deid_result,    \* pipeline run: the DeidentificationResult
    detector,       \* detector call: adapter, level, configured categories,
                    \* provider response, and the entities detect_phi returned
    local_fs,       \* local storage: the files and directories that exist
    local_call,     \* local storage: the last operation, the error it raised
                    \* and the files it created, read or deleted
    run,            \* pipeline run: position, batch number, the pages written
                    \* to the output, the aggregated regions and the result
    client          \* read endpoints: the last request, its status code and
                    \* body, and the buckets it read

runner_vars == <<api, job_table, phi_storage, clean_storage, queue, worker, faults>>

matcher_vars ==
    <<ocr_result, phi_entities, overlapping, mask_regions, matcher_pc>>

\* The state of the components that are exercised on their own, call by call.
local_vars == <<local_fs, local_call>>

library_vars == <<matcher_vars, deid_result, detector, local_vars, run, client>>

vars == <<runner_vars, library_vars>>

\* No matcher call is in progress.
MatcherUnused ==
    /\ ocr_result = NoOCRResult
    /\ phi_entities = <<>>
    /\ overlapping = <<>>
    /\ mask_regions = <<>>
    /\ matcher_pc = "unused"
    /\ deid_result = NoResult

\* No detector call is in progress.
DetectorUnused ==
    [pc |-> "unused", adapter |-> "mock", masking_level |-> SAFE_HARBOR,
     custom_phi_categories |-> {}, response |-> <<>>, entities |-> <<>>]

\* LocalStorageBackend.__init__: the base path exists.
LocalInit ==
    /\ local_fs = [files |-> InitialFiles, dirs |-> InitialDirs]
    /\ local_call = NoCall

LibraryUnused ==
    /\ MatcherUnused /\ detector = DetectorUnused /\ LocalInit
    /\ run = NoRun /\ client = NoRequest

RunnerInit ==
    /\ api = [j \in JobIds |-> "new"]
    /\ job_table = [j \in JobIds |-> NoRow]
    /\ phi_storage = [j \in JobIds |-> NoObject]
    /\ clean_storage = [j \in JobIds |-> NoOutput]
    /\ queue = {}
    /\ worker = [w \in Workers |-> Idle]
    /\ faults = 0

Init ==
    /\ RunnerInit
    /\ LibraryUnused

Row(w) == job_table[worker[w].job]

\* The except-handler of the task (it runs as soon as a step raises): bump
\* retry_count, mark FAILED on the "last retry", commit, re-raise.  When the
\* row is missing the table is unchanged.  (The handler's own commit is
\* taken to succeed; every commit and storage call of the try block may fail.)
HandledRow(row, retries, err) ==
    IF LastRetry(retries)
    THEN [row EXCEPT !.retry_count = retries + 1, !.status = FAILED,
                     !.error_message = err, !.completed_at = TRUE]
    ELSE [row EXCEPT !.retry_count = retries + 1]

\* The first commit of an attempt: status PROCESSING, and retry_count set to
\* the number of retries the queue has made so far (self.request.retries).
StartedRowAttemptNumber(row, retries) ==
    [row EXCEPT !.status = PROCESSING, !.retry_count = retries + 1]

StartedRow(row, retries) ==
    [row EXCEPT !.status = PROCESSING, !.retry_count = retries]

Raise(w, j, r, e) ==
    /\ worker' = [worker EXCEPT ![w] =
           [Idle EXCEPT !.pc = "raised", !.job = j, !.retries = r, !.err = e]]
    /\ job_table' = IF job_table[j] # NoRow
                     THEN [job_table EXCEPT ![j] = HandledRow(@, r, e)]
                     ELSE job_table

RaiseW(w, e) == Raise(w, worker[w].job, worker[w].retries, e)

\* ------------------------------------------------------------ create_job
\* Upload the input to the PHI bucket (HTTP 500 when the upload fails).
CreateJobUpload(j) ==
    /\ api[j] = "new"
    /\ \E doc \in Documents, ok \in BOOLEAN :
         IF ok
         THEN /\ phi_storage' = StorageUpload(phi_storage, j, doc)
              /\ api' = [api EXCEPT ![j] = "uploaded"]
         ELSE /\ api' = [api EXCEPT ![j] = "error"]
              /\ UNCHANGED phi_storage
    /\ UNCHANGED <<job_table, clean_storage, queue, worker, faults>>
    /\ UNCHANGED library_vars

\* Commit the PENDING row; on failure try to remove the uploaded input.
CreateJobCommit(j) ==
    /\ api[j] = "uploaded"
    /\ \E ok \in BOOLEAN, deleted \in BOOLEAN :
         IF ok
         THEN /\ job_table' = [job_table EXCEPT ![j] = NewJob]
              /\ api' = [api EXCEPT ![j] = "committed"]
              /\ UNCHANGED phi_storage
         ELSE /\ phi_storage' = IF deleted
                                THEN StorageDelete(phi_storage, j, NoObject)
                                ELSE phi_storage
              /\ api' = [api EXCEPT ![j] = "error"]
              /\ UNCHANGED job_table
    /\ UNCHANGED <<clean_storage, queue, worker, faults>>
    /\ UNCHANGED library_vars

\* deidentify_document_task.delay(...): publish the first message.
CreateJobEnqueue(j) ==
    /\ api[j] = "committed"
    /\ \E ok \in BOOLEAN :
         IF ok
         THEN /\ queue' = queue \cup {Message(j, 0)}
              /\ api' = [api EXCEPT ![j] = "done"]
         ELSE /\ api' = [api EXCEPT ![j] = "error"]
              /\ UNCHANGED queue
    /\ UNCHANGED <<job_table, phi_storage, clean_storage, worker, faults>>
    /\ UNCHANGED library_vars

\* The task invoked for a job id that has no row (test_task_with_missing_job).
EnqueueUnknown(j) ==
    /\ api[j] = "new"
    /\ api' = [api EXCEPT ![j] = "direct"]
    /\ queue' = queue \cup {Message(j, 0)}
    /\ UNCHANGED <<job_table, phi_storage, clean_storage, worker, faults>>
    /\ UNCHANGED library_vars

\* ------------------------------------------------- deidentify_document_task
\* The broker hands a ready message to an idle worker (prefetch 1; the
\* message stays unacknowledged while the attempt runs: acks_late).  The
\* attempt loads the row and commits PROCESSING and retry_count.
StartProcessing(w) ==
    /\ worker[w].pc = "idle"
    /\ \E m \in queue :
         /\ queue' = queue \ {m}
         /\ IF job_table[m.job] = NoRow
            THEN Raise(w, m.job, m.retries, "JobNotFound")
            ELSE \E ok \in BOOLEAN :
                   IF ok
                   THEN /\ job_table' = [job_table EXCEPT ![m.job] =
                              StartedRow(@, m.retries)]
                        /\ worker' = [worker EXCEPT ![w] =
                              [Idle EXCEPT !.pc = TaskSteps[1], !.job = m.job,
                                           !.retries = m.retries]]
                   ELSE Raise(w, m.job, m.retries, "Transient")
    /\ UNCHANGED <<api, phi_storage, clean_storage, faults>>
    /\ UNCHANGED library_vars

\* phi_storage.download(input_key)
Download(w) ==
    /\ worker[w].pc = "download"
    /\ IF phi_storage[worker[w].job] = NoObject
       THEN RaiseW(w, "NotFound")
       ELSE \E ok \in BOOLEAN :
              IF ok
              THEN /\ worker' = [worker EXCEPT
                       ![w].pc = NextStep("download"),
                       ![w].document_bytes = phi_storage[worker[w].job]]
                   /\ UNCHANGED job_table
              ELSE RaiseW(w, "Transient")
    /\ UNCHANGED <<api, phi_storage, clean_storage, queue, faults>>
    /\ UNCHANGED library_vars

\* _run_deidentification_pipeline, then the status check of the result.
RunPipeline(w) ==
    /\ worker[w].pc = "pipeline"
    /\ \E stage \in Stages \cup {"none"},
          bad \in SUBSET (0..(num_batches(MaxPages) - 1)) :
         LET result == deidentify_document(worker[w].document_bytes, stage, bad)
         IN IF result.status # "success"
            THEN RaiseW(w, result.cause)
            ELSE /\ worker' = [worker EXCEPT ![w].pc = NextStep("pipeline"),
                                             ![w].unmasked = result.unmasked]
                 /\ UNCHANGED job_table
    /\ UNCHANGED <<api, phi_storage, clean_storage, queue, faults>>
    /\ UNCHANGED library_vars

\* clean_storage.upload(output_key, result.masked_image_bytes)
Upload(w) ==
    /\ worker[w].pc = "upload"
    /\ \E ok \in BOOLEAN :
         IF ok
         THEN /\ clean_storage' = StorageUpload(clean_storage, worker[w].job,
                     [present |-> TRUE,
                      pages |-> worker[w].document_bytes.pages,
                      unmasked |-> worker[w].unmasked])
              /\ worker' = [worker EXCEPT ![w].pc = NextStep("upload"),
                                          ![w].uploaded = TRUE]
              /\ UNCHANGED job_table
         ELSE /\ RaiseW(w, "Transient")
              /\ UNCHANGED clean_storage
    /\ UNCHANGED <<api, phi_storage, queue, faults>>
    /\ UNCHANGED library_vars

\* phi_storage.delete(input_key)
DeletePhi(w) ==
    /\ worker[w].pc = "delete"
    /\ \E ok \in BOOLEAN :
         IF ok
         THEN /\ phi_storage' = StorageDelete(phi_storage, worker[w].job, NoObject)
              /\ worker' = [worker EXCEPT ![w].pc = NextStep("delete")]
              /\ UNCHANGED job_table
         ELSE /\ RaiseW(w, "Transient")
              /\ UNCHANGED phi_storage
    /\ UNCHANGED <<api, clean_storage, queue, faults>>
    /\ UNCHANGED library_vars

\* The last commit of a successful attempt.  An attempt whose commit fails
\* leaves the row as it was.
CompletedRow(row) ==
    [row EXCEPT !.status = COMPLETE, !.output_key = TRUE, !.completed_at = TRUE,
                !.phi_entities = TRUE]

\* Commit COMPLETE with output_key, completed_at and one PHI-entity row per
\* detected entity (every document of the model has one); return.
Complete(w) ==
    /\ worker[w].pc = "complete"
    /\ \E ok \in BOOLEAN :
         IF ok
         THEN /\ job_table' = [job_table EXCEPT ![worker[w].job] =
                    CompletedRow(@)]
              /\ worker' = [worker EXCEPT ![w] =
                    [Idle EXCEPT !.pc = "returned", !.job = worker[w].job,
                                 !.retries = worker[w].retries]]
         ELSE RaiseW(w, "Transient")
    /\ UNCHANGED <<api, phi_storage, clean_storage, queue, faults>>
    /\ UNCHANGED library_vars

\* task_soft_time_limit: SoftTimeLimitExceeded is raised inside the attempt.
SoftTimeLimit(w) ==
    /\ worker[w].pc \in Running
    /\ RaiseW(w, "SoftTimeLimitExceeded")
    /\ UNCHANGED <<api, phi_storage, clean_storage, queue, faults>>
    /\ UNCHANGED library_vars

\* The task returned: the message is acknowledged.
AckSuccess(w) ==
    /\ worker[w].pc = "returned"
    /\ worker' = [worker EXCEPT ![w] = Idle]
    /\ UNCHANGED <<api, job_table, phi_storage, clean_storage, queue, faults>>
    /\ UNCHANGED library_vars

\* The task raised: autoretry_for=(Exception,) re-publishes the task with
\* retries + 1 unless max_retries is exceeded; the message is acknowledged.
AutoRetry(w) ==
    /\ worker[w].pc = "raised"
    /\ queue' = IF WillRetry(worker[w].retries)
                THEN queue \cup {Message(worker[w].job, worker[w].retries + 1)}
                ELSE queue
    /\ worker' = [worker EXCEPT ![w] = Idle]
    /\ UNCHANGED <<api, job_table, phi_storage, clean_storage, faults>>
    /\ UNCHANGED library_vars

\* ------------------------------------------------------- worker and broker
\* The worker dies mid-attempt: its unacknowledged message is redelivered.
WorkerLost(w) ==
    /\ worker[w].pc # "idle"
    /\ faults < MaxFaults
    /\ faults' = faults + 1
    /\ queue' = queue \cup {Message(worker[w].job, worker[w].retries)}
    /\ worker' = [worker EXCEPT ![w] = Idle]
    /\ UNCHANGED <<api, job_table, phi_storage, clean_storage>>
    /\ UNCHANGED library_vars

\* At-least-once delivery: the broker redelivers a message that is still
\* unacknowledged (visibility timeout) while its first consumer is running.
Redeliver(w) ==
    /\ worker[w].pc # "idle"
    /\ faults < MaxFaults
    /\ Message(worker[w].job, worker[w].retries) \notin queue
    /\ faults' = faults + 1
    /\ queue' = queue \cup {Message(worker[w].job, worker[w].retries)}
    /\ UNCHANGED <<api, job_table, phi_storage, clean_storage, worker>>
    /\ UNCHANGED library_vars

\* task_time_limit: the attempt is killed; the message is acknowledged.
HardTimeLimit(w) ==
    /\ worker[w].pc \in Running
    /\ faults < MaxFaults
    /\ faults' = faults + 1
    /\ worker' = [worker EXCEPT ![w] = Idle]
    /\ UNCHANGED <<api, job_table, phi_storage, clean_storage, queue>>
    /\ UNCHANGED library_vars

Next ==
    \/ \E j \in JobIds : CreateJobUpload(j)
    \/ \E j \in JobIds : CreateJobCommit(j)
    \/ \E j \in JobIds : CreateJobEnqueue(j)
    \/ \E j \in JobIds : EnqueueUnknown(j)
    \/ \E w \in Workers : StartProcessing(w)
    \/ \E w \in Workers : Download(w)
    \/ \E w \in Workers : RunPipeline(w)
    \/ \E w \in Workers : Upload(w)
    \/ \E w \in Workers : DeletePhi(w)
    \/ \E w \in Workers : Complete(w)
    \/ \E w \in Workers : SoftTimeLimit(w)
    \/ \E w \in Workers : AckSuccess(w)
    \/ \E w \in Workers : AutoRetry(w)
    \/ \E w \in Workers : WorkerLost(w)
    \/ \E w \in Workers : Redeliver(w)
    \/ \E w \in Workers : HardTimeLimit(w)

Spec == Init /\ [][Next]_vars

\* Fair scheduling: a ready message is eventually delivered to an idle
\* worker, a running attempt eventually takes its next step (which may
\* fail), and a finished attempt is eventually acknowledged or retried.
FairSpec ==
    /\ Spec
    /\ \A w \in Workers :
          WF_vars(\/ StartProcessing(w) \/ Download(w) \/ RunPipeline(w)
                  \/ Upload(w) \/ DeletePhi(w) \/ Complete(w)
                  \/ AckSuccess(w) \/ AutoRetry(w))

\* ==================================================================
\* The matcher on its own: one call of match_entities_to_boxes
\* ==================================================================
MatcherInit ==
    /\ RunnerInit
    /\ ocr_result \in OCRResults
    /\ phi_entities \in {<<e>> : e \in PHIEntities}
    /\ overlapping = <<>>
    /\ mask_regions = <<>>
    /\ matcher_pc = "called"
    /\ deid_result = NoResult
    /\ detector = DetectorUnused
    /\ LocalInit
    /\ run = NoRun
    /\ client = NoRequest

\* The locals of the loop body for one entity: what offset matching
\* contributed and what _find_overlapping_words returned.
Located(entity, ocr) ==
    LET offset_map == build_offset_map(ocr)
    IN [by_offset |-> offset_match(entity, offset_map),
        fallback |-> uses_fallback(entity, offset_map, ocr.full_text),
        words |-> find_overlapping_words(entity, offset_map, ocr.full_text)]

MatchEntities ==
    /\ matcher_pc = "called"
    /\ matcher_pc' = "returned"
    /\ mask_regions' = match_entities_to_boxes(ocr_result, phi_entities)
    /\ overlapping' = [i \in 1..Len(phi_entities) |->
                          Located(phi_entities[i], ocr_result)]
    /\ UNCHANGED <<ocr_result, phi_entities, deid_result, detector, local_vars, run, client>>
    /\ UNCHANGED runner_vars

MatcherNext == MatchEntities

MatcherSpec == MatcherInit /\ [][MatcherNext]_vars

\* ==================================================================
\* The pipeline from OCR and detection output to the result: the
\* single-batch path, and one batch of the batched path
\* ==================================================================
PipelineInit ==
    /\ RunnerInit
    /\ ocr_result \in OCRResults
    /\ phi_entities \in DetectedLists
    /\ overlapping = <<>>
    /\ mask_regions = <<>>
    /\ matcher_pc \in {"single_batch", "batch"}
    /\ deid_result = NoResult
    /\ detector = DetectorUnused
    /\ LocalInit
    /\ run = NoRun
    /\ client = NoRequest

\* Steps 4 to 6 with the given warning text.
PipelineSteps(warning) ==
    /\ matcher_pc' = "returned"
    /\ mask_regions' = match_entities_to_boxes(ocr_result, phi_entities)
    /\ overlapping' = [i \in 1..Len(phi_entities) |->
                          Located(phi_entities[i], ocr_result)]
    /\ deid_result' =
           SuccessResult(ocr_result, phi_entities, mask_regions', warning)
    /\ UNCHANGED <<ocr_result, phi_entities, detector, local_vars, run, client>>
    /\ UNCHANGED runner_vars

ProcessSingleBatch ==
    /\ matcher_pc = "single_batch"
    /\ PipelineSteps("could not match")

ProcessBatch ==
    /\ matcher_pc = "batch"
    /\ PipelineSteps("unmatched in batch")

PipelineNext == ProcessSingleBatch \/ ProcessBatch

PipelineSpec == PipelineInit /\ [][PipelineNext]_vars

\* ==================================================================
\* A detector adapter on its own: one call of detect_phi
\* ==================================================================
DetectorInit ==
    /\ RunnerInit
    /\ MatcherUnused
    /\ LocalInit
    /\ run = NoRun
    /\ client = NoRequest
    /\ \E a \in Adapters :
         detector \in [pc : {"called"}, adapter : {a},
                       masking_level : MaskingLevel,
                       custom_phi_categories : CustomCategories(a),
                       response : Responses(a), entities : {<<>>}]

DetectPhi ==
    /\ detector.pc = "called"
    /\ detector' = [detector EXCEPT
           !.pc = "returned",
           !.entities = detect_phi(detector.adapter, detector.response,
                                   detector.masking_level,
                                   detector.custom_phi_categories)]
    /\ UNCHANGED <<matcher_vars, deid_result, local_vars, run, client>>
    /\ UNCHANGED runner_vars

DetectorNext == DetectPhi

DetectorSpec == DetectorInit /\ [][DetectorNext]_vars

\* ==================================================================
\* The local storage backend on its own: a sequence of operations
\* ==================================================================
LocalStorageInit ==
    /\ RunnerInit
    /\ MatcherUnused
    /\ detector = DetectorUnused
    /\ LocalInit
    /\ run = NoRun
    /\ client = NoRequest

\* _get_full_path raised: nothing else happens.
Rejected(op, key) ==
    /\ local_call' = Call(op, key, "ValueError", {})
    /\ UNCHANGED local_fs

LocalUpload(key) ==
    /\ IF ~within_base(key) THEN Rejected("upload", key)
       ELSE LET made == mkdir(local_fs, Root, parent(full_path(key)))
                fs == [local_fs EXCEPT !.dirs = made.dirs]
                end == walk(fs, Root, full_path(key))
            IN IF made.ok /\ end.kind \in {"file", "missing"}
               THEN /\ local_fs' = [fs EXCEPT !.files = @ \cup {end.at}]
                    /\ local_call' = Call("upload", key, "none", {end.at})
               ELSE /\ local_fs' = fs
                    /\ local_call' = Call("upload", key, "OSError", {})
    /\ UNCHANGED <<matcher_vars, deid_result, detector, run, client>>
    /\ UNCHANGED runner_vars

LocalDownload(key) ==
    /\ IF ~within_base(key) THEN Rejected("download", key)
       ELSE LET end == walk(local_fs, Root, full_path(key))
            IN /\ local_call' =
                      IF end.kind = "file"
                      THEN Call("download", key, "none", {end.at})
                      ELSE IF end.kind = "dir"
                      THEN Call("download", key, "OSError", {})
                      ELSE Call("download", key, "FileNotFoundError", {})
               /\ UNCHANGED local_fs
    /\ UNCHANGED <<matcher_vars, deid_result, detector, run, client>>
    /\ UNCHANGED runner_vars

LocalExists(key) ==
    /\ IF ~within_base(key) THEN Rejected("exists", key)
       ELSE /\ local_call' = Call("exists", key, "none", {})
            /\ UNCHANGED local_fs
    /\ UNCHANGED <<matcher_vars, deid_result, detector, run, client>>
    /\ UNCHANGED runner_vars

LocalDelete(key) ==
    /\ IF ~within_base(key) THEN Rejected("delete", key)
       ELSE LET end == walk(local_fs, Root, full_path(key))
            IN IF end.kind = "file"
               THEN /\ local_fs' = [local_fs EXCEPT !.files = @ \ {end.at}]
                    /\ local_call' = Call("delete", key, "none", {end.at})
               ELSE /\ local_call' =
                          Call("delete", key,
                               IF end.kind = "dir" THEN "OSError" ELSE "none", {})
                    /\ UNCHANGED local_fs
    /\ UNCHANGED <<matcher_vars, deid_result, detector, run, client>>
    /\ UNCHANGED runner_vars

LocalStorageNext ==
    \/ \E key \in Keys : LocalUpload(key)
    \/ \E key \in Keys : LocalDownload(key)
    \/ \E key \in Keys : LocalExists(key)
    \/ \E key \in Keys : LocalDelete(key)

LocalStorageSpec == LocalStorageInit /\ [][LocalStorageNext]_vars

\* ==================================================================
\* The pipeline on its own, batch by batch: which pages reach the output
\* ==================================================================
RunInit ==
    /\ RunnerInit
    /\ MatcherUnused
    /\ detector = DetectorUnused
    /\ LocalInit
    /\ client = NoRequest
    /\ \E n \in 1..MaxPages : run = [NoRun EXCEPT !.pc = "loaded", !.total_pages = n]

\* _process_single_batch: a raising stage leaves through the handler of
\* deidentify_document (status "failure"); save_document writes the masked
\* images it is given, in order.
RunSingleBatch ==
    /\ run.pc = "loaded"
    /\ run.total_pages <= batch_size
    /\ \E fault \in BatchFaults, phi_pages \in SUBSET (1..run.total_pages) :
         LET images == [i \in 1..run.total_pages |-> i]
             regions == RunRegions(Len(images), phi_pages)
         IN run' = IF fault # "none"
                   THEN [run EXCEPT !.pc = "done", !.status = "failure", !.errors = 1]
                   ELSE [run EXCEPT !.pc = "done", !.status = "success",
                                    !.output = apply_masks(images, regions),
                                    !.mask_regions = regions,
                                    !.produced = [r \in 1..Len(regions) |->
                                        [batch_num |-> 0, index |-> regions[r].page]],
                                    !.pages_processed = Len(images)]
    /\ UNCHANGED <<matcher_vars, deid_result, detector, local_vars, client>>
    /\ UNCHANGED runner_vars

\* One iteration of the loop of _process_batched.  A fault in steps 2 to 5
\* raises before any page of the batch is written; a fault in the write
\* loop raises after `written` masked pages.  The handler records the error
\* and writes the whole batch unmasked.
RunBatch ==
    /\ run.pc \in {"loaded", "batching"}
    /\ run.total_pages > batch_size
    /\ run.batch_num < num_batches(run.total_pages)
    /\ LET batch_start == run.batch_num * batch_size
           batch_end == Min2(batch_start + batch_size, run.total_pages)
           batch_images == [i \in 1..(batch_end - batch_start) |-> batch_start + i]
       IN \E fault \in BatchFaults, phi_pages \in SUBSET (1..Len(batch_images)),
             written \in 0..(Len(batch_images) - 1) :
            LET regions == RunRegions(Len(batch_images), phi_pages)
                masked == apply_masks(batch_images, regions)
            IN run' =
                 IF fault = "none"
                 THEN [run EXCEPT !.pc = "batching", !.batch_num = @ + 1,
                           !.output = @ \o masked,
                           !.mask_regions = @ \o regions,
                           !.produced = @ \o [r \in 1..Len(regions) |->
                               [batch_num |-> run.batch_num, index |-> regions[r].page]]]
                 ELSE [run EXCEPT !.pc = "batching", !.batch_num = @ + 1,
                           !.errors = @ + 1,
                           !.output = @ \o (IF fault = "write"
                                              THEN SubSeq(masked, 1, written)
                                              ELSE <<>>)
                                        \o unmasked_copies(batch_images)]
    /\ UNCHANGED <<matcher_vars, deid_result, detector, local_vars, client>>
    /\ UNCHANGED runner_vars

\* After the loop: the temporary file is read back and the result built; an
\* exception here leaves through the handler of deidentify_document.
RunFinish ==
    /\ run.pc = "batching"
    /\ run.batch_num = num_batches(run.total_pages)
    /\ \E ok \in BOOLEAN :
         run' = IF ok
                THEN [run EXCEPT !.pc = "done", !.status = "success",
                                 !.pages_processed = run.total_pages]
                ELSE [run EXCEPT !.pc = "done", !.status = "failure",
                                 !.errors = @ + 1,
                                 !.pages_processed = 0, !.output = <<>>,
                                 !.mask_regions = <<>>, !.produced = <<>>]
    /\ UNCHANGED <<matcher_vars, deid_result, detector, local_vars, client>>
    /\ UNCHANGED runner_vars

RunNext == RunSingleBatch \/ RunBatch \/ RunFinish

RunSpec == RunInit /\ [][RunNext]_vars

\* ==================================================================
\* The read endpoints on their own, over any job row and bucket contents
\* ==================================================================
ApiReadInit ==
    /\ api = [j \in JobIds |-> "done"]
    /\ job_table \in [JobIds ->
           {NoRow} \cup {[NewJob EXCEPT !.status = st, !.output_key = key,
                                        !.phi_entities = key] :
                            st \in JobStatus, key \in BOOLEAN}]
    /\ phi_storage \in [JobIds -> {NoObject} \cup Documents]
    /\ clean_storage \in [JobIds ->
           {NoOutput, [present |-> TRUE, pages |-> 1, unmasked |-> {}]}]
    /\ queue = {}
    /\ worker = [w \in Workers |-> Idle]
    /\ faults = 0
    /\ LibraryUnused

Response(endpoint, code) == [NoRequest EXCEPT !.endpoint = endpoint, !.code = code]

\* GET /api/v1/jobs/{job_id}
GetJobStatus(j) ==
    /\ client' = IF job_table[j] = NoRow
                  THEN Response("get_job_status", 404)
                  ELSE Response("get_job_status", 200)
    /\ UNCHANGED <<runner_vars, matcher_vars, deid_result, detector, local_vars, run>>

\* GET /api/v1/jobs
ListJobs ==
    /\ client' = Response("list_jobs", 200)
    /\ UNCHANGED <<runner_vars, matcher_vars, deid_result, detector, local_vars, run>>

\* GET /api/v1/jobs/{job_id}/download without the status test.
DownloadResultAnyStatus(j) ==
    /\ client' = [Response("download_result", 200) EXCEPT
                      !.body = clean_storage[j], !.read_clean = TRUE]
    /\ UNCHANGED <<runner_vars, matcher_vars, deid_result, detector, local_vars, run>>

\* GET /api/v1/jobs/{job_id}/download: the object is read from the clean
\* bucket under the row's output_key; a missing object and a failing
\* download answer 500.
DownloadResult(j) ==
    /\ \E ok \in BOOLEAN :
         client' =
             IF job_table[j] = NoRow THEN Response("download_result", 404)
             ELSE IF job_table[j].status # COMPLETE
             THEN Response("download_result", 400)
             ELSE IF ~job_table[j].output_key
             THEN Response("download_result", 500)
             ELSE IF ~clean_storage[j].present \/ ~ok
             THEN [Response("download_result", 500) EXCEPT !.read_clean = TRUE]
             ELSE [Response("download_result", 200) EXCEPT
                      !.body = clean_storage[j], !.read_clean = TRUE]
    /\ UNCHANGED <<runner_vars, matcher_vars, deid_result, detector, local_vars, run>>

\* GET /api/v1/jobs/{job_id}/entities: rows of the database only.
GetPhiEntities(j) ==
    /\ client' = IF job_table[j] = NoRow THEN Response("get_phi_entities", 404)
                  ELSE IF job_table[j].status # COMPLETE
                  THEN Response("get_phi_entities", 400)
                  ELSE Response("get_phi_entities", 200)
    /\ UNCHANGED <<runner_vars, matcher_vars, deid_result, detector, local_vars, run>>

ApiReadNext ==
    \/ \E j \in JobIds : GetJobStatus(j)
    \/ ListJobs
    \/ \E j \in JobIds : DownloadResult(j)
    \/ \E j \in JobIds : GetPhiEntities(j)

ApiReadSpec == ApiReadInit /\ [][ApiReadNext]_vars

TypeOK ==
    /\ \A j \in JobIds : job_table[j].status \in JobStatus \cup {"absent"}
    /\ \A w \in Workers : worker[w].pc \in Running \cup {"idle", "raised", "returned"}

\* ------------------------------------------------------------------ claims
InProgress == Running

TerminalErrors == {"FormatError", "NotFound"}

\* The autoretry wrapper publishes the retry of worker w's failed attempt.
Retried(w) ==
    /\ worker[w].pc = "raised"
    /\ worker'[w].pc = "idle"
    /\ Message(worker[w].job, worker[w].retries + 1) \notin queue
    /\ Message(worker[w].job, worker[w].retries + 1) \in queue'

\* C1: for every job whose row is COMPLETE the clean bucket holds its
\* output object and the PHI bucket does not hold its input object.
C1_CompleteOutputPresentInputGone ==
    \A j \in JobIds :
        job_table[j].status = COMPLETE =>
            clean_storage[j].present /\ phi_storage[j] = NoObject

C1_Witness ==
    \E j \in JobIds :
        /\ job_table[j].status = COMPLETE
        /\ job_table[j].output_key
        /\ clean_storage[j].present
        /\ phi_storage[j] = NoObject

\* C2: for every job whose status is PENDING or FAILED the clean bucket
\* does not hold the job's output object.
C2_NoOutputWhenPendingOrFailed ==
    \A j \in JobIds :
        job_table[j].status \in {PENDING, FAILED} => ~clean_storage[j].present

\* C3: the PHI input of a job is deleted only by an attempt whose upload to
\* the clean bucket has returned, and at every moment after the job was
\* created its PHI input or its clean output exists.
C3_InputOrOutputExists ==
    \A j \in JobIds :
        job_table[j] # NoRow =>
            phi_storage[j] # NoObject \/ clean_storage[j].present

C3_DeleteOnlyAfterUpload ==
    /\ []C3_InputOrOutputExists
    /\ [][\A j \in JobIds :
            (job_table[j] # NoRow /\ phi_storage[j] # NoObject
                                  /\ phi_storage'[j] = NoObject)
            => \E w \in Workers : /\ worker[w].job = j
                                  /\ worker[w].pc = "delete"
                                  /\ worker[w].uploaded
                                  /\ worker'[w].pc # "delete"]_vars

C3_Witness ==
    \E w \in Workers :
        /\ worker[w].pc = "complete"
        /\ worker[w].uploaded
        /\ phi_storage[worker[w].job] = NoObject
        /\ clean_storage[worker[w].job].present

\* C4: no two attempts for the same job are in progress (between the
\* PROCESSING commit and the attempt's last commit) at the same time.
C4_AtMostOneAttemptPerJob ==
    \A w1, w2 \in Workers :
        (w1 # w2 /\ worker[w1].pc \in InProgress /\ worker[w2].pc \in InProgress)
            => worker[w1].job # worker[w2].job

\* C5: COMPLETE and FAILED are absorbing: no step changes the status of a
\* row that is COMPLETE or FAILED.
C5_TerminalStatusAbsorbing ==
    [][\A j \in JobIds :
          job_table[j].status \in {COMPLETE, FAILED}
              => job_table'[j].status = job_table[j].status]_vars

\* C6: once an attempt has failed and its handler has run, the row is FAILED
\* exactly when the queue will make no further delivery; while the queue
\* will re-deliver, the row is not FAILED.
C6_FailedIffExhausted ==
    \A w \in Workers :
        (worker[w].pc = "raised" /\ Row(w) # NoRow)
            => (Row(w).status = FAILED <=> ~WillRetry(worker[w].retries))

\* C7: a job one of whose batches raised does not end COMPLETE with a
\* document in the clean bucket that contains that batch's unmasked pages.
C7_NoCompleteWithUnmaskedBatch ==
    \A j \in JobIds :
        job_table[j].status = COMPLETE => clean_storage[j].unmasked = {}

\* C8: an attempt that failed with a terminal error (FormatError, input not
\* found) is never retried.
C8_TerminalErrorNotRetried ==
    [][\A w \in Workers : worker[w].err \in TerminalErrors => ~Retried(w)]_vars

\* C9: an attempt delivered for a job id that has no row is never retried.
C9_MissingJobNotRetried ==
    [][\A w \in Workers : worker[w].err = "JobNotFound" => ~Retried(w)]_vars

\* C10: an attempt that exceeded the soft time limit leaves the job FAILED
\* with the timeout as its reason and is never retried.
C10_SoftTimeLimitTerminal ==
    /\ [](\A w \in Workers :
            (worker[w].pc = "raised" /\ worker[w].err = "SoftTimeLimitExceeded"
                                     /\ Row(w) # NoRow)
                => /\ Row(w).status = FAILED
                   /\ Row(w).error_message = "SoftTimeLimitExceeded")
    /\ [][\A w \in Workers :
            worker[w].err = "SoftTimeLimitExceeded" => ~Retried(w)]_vars

\* C11: when no worker was lost and no message was redelivered, an attempt
\* that succeeds after k failed attempts (k = the retries of its message)
\* leaves the job COMPLETE with retry_count = k, the clean output present
\* and the PHI input deleted.
C11_CompleteAfterRetries ==
    \A w \in Workers :
        (worker[w].pc = "returned" /\ faults = 0)
            => /\ Row(w).status = COMPLETE
               /\ Row(w).retry_count = worker[w].retries
               /\ clean_storage[worker[w].job].present
               /\ phi_storage[worker[w].job] = NoObject

C11_Witness ==
    \E w \in Workers :
        /\ worker[w].pc = "returned"
        /\ worker[w].retries = 1
        /\ faults = 0
        /\ Row(w).status = COMPLETE
        /\ Row(w).retry_count = 1

\* C12: an entity whose text is a single character and that offset matching
\* did not accept is given no words by the text search: the call returns no
\* mask region for it.
C12_SingleCharacterNotSearched ==
    matcher_pc = "returned" =>
        \A k \in 1..Len(phi_entities) :
            (Len(phi_entities[k].text) = 1 /\ overlapping[k].by_offset = <<>>)
                => overlapping[k].words = <<>> /\ mask_regions = <<>>

\* C13: the words the text search returns are one run of consecutive
\* offset-map entries whose joined text is within fuzzy_match_threshold of
\* the entity text, and no such run starts earlier in the offset map.
C13_FallbackFirstContiguousRun ==
    matcher_pc = "returned" =>
        \A k \in 1..Len(phi_entities) :
            overlapping[k].fallback =>
                LET offset_map == build_offset_map(ocr_result)
                    entity_text == lower(strip(phi_entities[k].text))
                    n == Len(offset_map)
                    runs == {r \in (1..n) \X (1..n) :
                               /\ r[1] <= r[2]
                               /\ Levenshtein_distance(
                                      lower(combined_text(
                                          SubSeq(offset_map, r[1], r[2]))),
                                      entity_text) <= fuzzy_match_threshold}
                IN \/ overlapping[k].words = <<>>
                   \/ \E r \in runs :
                        /\ overlapping[k].words = SubSeq(offset_map, r[1], r[2])
                        /\ \A q \in runs : r[1] <= q[1]

\* C14: an entity whose text is empty is given no words and the call
\* returns no mask region for it.
C14_EmptyTextRejected ==
    matcher_pc = "returned" =>
        \A k \in 1..Len(phi_entities) :
            phi_entities[k].text = <<>>
                => overlapping[k].words = <<>> /\ mask_regions = <<>>

\* C16: the box of every returned region is the union rectangle of the
\* entity's words on the region's page, padded by box_padding_px on the four
\* sides, with x and y not below 0; one word at (100,200,50,20) gives
\* (95,195,60,30).
C16_PaddedUnionBox ==
    matcher_pc = "returned" =>
        \A r \in 1..Len(mask_regions) :
            LET words == overlapping[1].words
                box == mask_regions[r].bounding_box
                boxes == {words[i].word.bounding_box :
                            i \in {n \in 1..Len(words) :
                                     words[n].word.bounding_box.page
                                         = mask_regions[r].page}}
            IN /\ boxes # {}
               /\ box.x = Max2(0, SetMin({b.x : b \in boxes}) - box_padding_px)
               /\ box.y = Max2(0, SetMin({b.y : b \in boxes}) - box_padding_px)
               /\ box.x + box.width
                      = SetMax({b.x + b.width : b \in boxes}) + box_padding_px
               /\ box.y + box.height
                      = SetMax({b.y + b.height : b \in boxes}) + box_padding_px
               /\ boxes = {[page |-> 1, x |-> 100, y |-> 200,
                            width |-> 50, height |-> 20]}
                      => box = [page |-> 1, x |-> 95, y |-> 195,
                                width |-> 60, height |-> 30]

C16_Witness ==
    /\ matcher_pc = "returned"
    /\ Len(overlapping[1].words) >= 2
    /\ \E r \in 1..Len(mask_regions) :
         /\ mask_regions[r].bounding_box.x = 0
         /\ mask_regions[r].bounding_box.y = 0
         /\ mask_regions[r].bounding_box.width > 60

\* C17: the call returns exactly one region for every page on which the
\* entity has words; every region's page is its box's page and its box is
\* merged from the entity's words on that page only.
C17_OneRegionPerPage ==
    matcher_pc = "returned" =>
        LET words == overlapping[1].words
            pages == {words[i].word.bounding_box.page : i \in 1..Len(words)}
        IN /\ Len(mask_regions) = Cardinality(pages)
           /\ \A p \in pages :
                Cardinality({r \in 1..Len(mask_regions) :
                               mask_regions[r].page = p}) = 1
           /\ \A r \in 1..Len(mask_regions) :
                /\ mask_regions[r].page = mask_regions[r].bounding_box.page
                /\ ValidMaskRegion(mask_regions[r])
                /\ mask_regions[r].page \in pages
                /\ mask_regions[r].bounding_box =
                       merge_bounding_boxes(
                           SelectSeq(words,
                               LAMBDA wo : wo.word.bounding_box.page
                                               = mask_regions[r].page))

C17_Witness ==
    /\ matcher_pc = "returned"
    /\ Len(mask_regions) = 2
    /\ mask_regions[1].page = 1
    /\ mask_regions[2].page = 2
    /\ mask_regions[1].bounding_box.page = 1
    /\ mask_regions[2].bounding_box.page = 2

\* C18 as stated: offset matching collects exactly the offset-map words whose
\* span shares a character position with [offset, offset + length) and
\* keeps them iff the distance between their texts joined by single spaces
\* and the entity text, both lower-cased, is at most
\* max(|entity text| div 3, fuzzy_match_threshold).
C18_OffsetMatchEntityText ==
    matcher_pc = "returned" =>
        \A k \in 1..Len(phi_entities) :
            LET entity == phi_entities[k]
                collected ==
                    SelectSeq(build_offset_map(ocr_result),
                        LAMBDA wo :
                            \E c \in wo.start_offset..(wo.end_offset - 1) :
                                /\ entity.offset <= c
                                /\ c < entity.offset + entity.length)
                joined == join([i \in 1..Len(collected) |->
                                   collected[i].word.text], <<" ">>)
                accepted ==
                    /\ collected # <<>>
                    /\ Levenshtein_distance(lower(joined), lower(entity.text))
                           <= Max2(Len(entity.text) \div 3, fuzzy_match_threshold)
            IN overlapping[k].by_offset = IF accepted THEN collected ELSE <<>>

\* C18, amended: the same with the entity text taken without its leading
\* and trailing whitespace, in the comparison and in the length.
C18_OffsetMatchStrippedText ==
    matcher_pc = "returned" =>
        \A k \in 1..Len(phi_entities) :
            LET entity == phi_entities[k]
                entity_text == strip(entity.text)
                collected ==
                    SelectSeq(build_offset_map(ocr_result),
                        LAMBDA wo :
                            \E c \in wo.start_offset..(wo.end_offset - 1) :
                                /\ entity.offset <= c
                                /\ c < entity.offset + entity.length)
                joined == join([i \in 1..Len(collected) |->
                                   collected[i].word.text], <<" ">>)
                accepted ==
                    /\ collected # <<>>
                    /\ Levenshtein_distance(lower(joined), lower(entity_text))
                           <= Max2(Len(entity_text) \div 3, fuzzy_match_threshold)
            IN overlapping[k].by_offset = IF accepted THEN collected ELSE <<>>

C18_Witness ==
    /\ matcher_pc = "returned"
    /\ Len(phi_entities[1].text) = 10
    /\ Len(overlapping[1].by_offset) = 3
    /\ Levenshtein_distance(lower(combined_text(overlapping[1].by_offset)),
                            lower(strip(phi_entities[1].text))) = 3

\* C15: in every pipeline run (the single-batch path and a batch of the
\* batched path) in which some detected entity got no mask region, the
\* result's errors hold an unmatched-entity warning and the status is
\* success.
C15_UnmatchedEntityWarned ==
    matcher_pc = "returned" =>
        ((\E k \in 1..Len(phi_entities) : overlapping[k].words = <<>>)
            => deid_result.status = "success" /\ deid_result.errors # <<>>)

\* C19: detect_phi of every adapter returns, under SAFE_HARBOR, every entity
\* of the provider response; under LIMITED_DATASET exactly those whose
\* category is not in the adapter's PROVIDER_CATEGORIES; under CUSTOM exactly
\* those whose category is in the configured set, or all of them when that
\* set is empty.
C19_LevelFiltering ==
    detector.pc = "returned" =>
        LET custom == detector.custom_phi_categories
            wanted(e) ==
                CASE detector.masking_level = SAFE_HARBOR -> TRUE
                  [] detector.masking_level = LIMITED_DATASET ->
                         e.category \notin PROVIDER_CATEGORIES(detector.adapter)
                  [] detector.masking_level = CUSTOM ->
                         custom = {} \/ e.category \in custom
            count(seq, x) == Cardinality({i \in 1..Len(seq) : seq[i] = x})
            sent == [i \in 1..Len(detector.response) |->
                       IF wanted(detector.response[i])
                       THEN ToPHIEntity(detector.response[i])
                       ELSE [category |-> "dropped", offset |-> 0, length |-> 0]]
        IN \A e \in ProviderEntities(detector.adapter) :
              count(detector.entities, ToPHIEntity(e)) = count(sent, ToPHIEntity(e))

\* C20: an operation of the local backend whose key resolves outside the
\* base path raises and creates, reads or deletes no file; the files and
\* directories outside the base path are never changed.
C20_OutsideKeyRejected ==
    LET outside(path) == ~(Len(path) >= 1 /\ path[1] = "data")
    IN /\ (local_call.op # "none"
            /\ outside(resolve(Root, full_path(local_call.key))))
           => local_call.raised = "ValueError" /\ local_call.touched = {}
       /\ \A path \in local_call.touched : ~outside(path)
       /\ {f \in local_fs.files : outside(f)} = {<<"a">>}
       /\ {d \in local_fs.dirs : outside(d)} = {Root}

C20_Witness ==
    /\ local_call.op = "upload"
    /\ local_call.key = [absolute |-> FALSE, parts |-> <<"link", "a">>]
    /\ local_call.raised = "ValueError"
    /\ <<"data", "a", "a">> \in local_fs.files

\* C21: no upload of the local backend with a key that has a ".."
\* component succeeds.
C21_NoUploadWithDotDot ==
    (local_call.op = "upload"
     /\ \E i \in DOMAIN local_call.key.parts : local_call.key.parts[i] = "..")
        => local_call.raised # "none"

\* C22: a pipeline run that returns success has written exactly the input
\* pages to the output, in input order, and reports that number as
\* pages_processed.
C22_OutputPagesAreInputPages ==
    (run.pc = "done" /\ run.status = "success")
        => /\ Len(run.output) = run.total_pages
           /\ \A i \in 1..Len(run.output) : run.output[i].source = i
           /\ run.pages_processed = run.total_pages

\* C30: in the result of a batched run every region's page is the number
\* of the page in the document: batch b (from 0), i-th page of the batch
\* gives b * batch_size + i.
C30_RegionPageIsDocumentPage ==
    (run.pc = "done" /\ run.status = "success" /\ run.total_pages > batch_size)
        => \A r \in 1..Len(run.mask_regions) :
              run.mask_regions[r].page =
                  run.produced[r].batch_num * batch_size + run.produced[r].index

\* C23: when a stage of the pipeline raised, the run ends by raising that
\* exception to its caller (it does not end with a result).
C23_StageErrorPropagates ==
    (run.pc = "done" /\ run.errors > 0) => run.status = "raised"

\* C24: create_job publishes the task only when the input is in the PHI
\* bucket and the PENDING row is committed; a failed upload leaves no
\* object, no row and no message; a failed row commit leaves no object, no
\* row and no message.
C24_CreateJobOrder ==
    /\ [][\A j \in JobIds :
            (api[j] = "committed" /\ api'[j] = "done")
                => /\ phi_storage[j] # NoObject
                   /\ job_table[j].status = PENDING
                   /\ Message(j, 0) \in queue']_vars
    /\ [][\A j \in JobIds :
            (api[j] = "new" /\ api'[j] = "error")
                => /\ phi_storage'[j] = NoObject
                   /\ job_table'[j] = NoRow
                   /\ queue' = {}]_vars
    /\ [][\A j \in JobIds :
            (api[j] = "uploaded" /\ api'[j] = "error")
                => /\ phi_storage'[j] = NoObject
                   /\ job_table'[j] = NoRow
                   /\ queue' = {}]_vars

\* C26: a job has rows in the PHI-entity table exactly when its status is
\* COMPLETE.
C26_EntityRowsIffComplete ==
    \A j \in JobIds :
        job_table[j].phi_entities <=> job_table[j].status = COMPLETE

\* C27: the offset map lists words of the OCR result in their order, each
\* at most once; its spans are not empty, lie within the full text, start
\* at a character that is not whitespace, and follow one another without
\* overlap; what lies before a span and after the span before it is
\* whitespace only, so a word that was not located moved the position past
\* no other character.
C27_OffsetMapOrderedDisjoint ==
    matcher_pc = "returned" =>
        LET offset_map == build_offset_map(ocr_result)
            text == ocr_result.full_text
            words == all_words(ocr_result.pages)
            n == Len(offset_map)
            before(i) == IF i = 1 THEN 0 ELSE offset_map[i - 1].end_offset
        IN /\ \E f \in [1..n -> 1..Len(words)] :
                 /\ \A i \in 1..n : offset_map[i].word = words[f[i]]
                 /\ \A i, j \in 1..n : i < j => f[i] < f[j]
           /\ \A i \in 1..n :
                 /\ 0 <= offset_map[i].start_offset
                 /\ offset_map[i].start_offset < offset_map[i].end_offset
                 /\ offset_map[i].end_offset <= Len(text)
                 /\ ~isspace(text[offset_map[i].start_offset + 1])
                 /\ before(i) <= offset_map[i].start_offset
                 /\ \A c \in (before(i) + 1)..offset_map[i].start_offset :
                        isspace(text[c])

\* A word that is not in the transcript is dropped and the two words after
\* it are located.
C27_Witness ==
    /\ matcher_pc = "returned"
    /\ Len(all_words(ocr_result.pages)) = 3
    /\ LET offset_map == build_offset_map(ocr_result)
       IN /\ Len(offset_map) = 2
          /\ offset_map[1].word = all_words(ocr_result.pages)[2]
          /\ offset_map[1].start_offset = 0
          /\ offset_map[2].start_offset > offset_map[1].end_offset

\* C28: the row of an entity that the matcher located carries the page and
\* the box of one of the regions produced for that entity.
C28_RowCarriesOwnRegion ==
    (matcher_pc = "returned" /\ deid_result.status = "success") =>
        LET rows == entity_rows(phi_entities, mask_regions)
            own(i) == entity_regions(phi_entities[i], build_offset_map(ocr_result),
                                     ocr_result.full_text)
        IN \A i \in 1..Len(phi_entities) :
              own(i) # <<>> =>
                  \E r \in 1..Len(own(i)) :
                      /\ rows[i].page = own(i)[r].page
                      /\ rows[i].bbox.x = own(i)[r].bounding_box.x
                      /\ rows[i].bbox.y = own(i)[r].bounding_box.y
                      /\ rows[i].bbox.width = own(i)[r].bounding_box.width
                      /\ rows[i].bbox.height = own(i)[r].bounding_box.height

\* C29: under fair scheduling a job that has a row and whose task was
\* enqueued, or that is PROCESSING, eventually is COMPLETE or FAILED.
C29_EventuallyTerminal ==
    \A j \in JobIds :
        ((job_table[j] # NoRow /\ \E m \in queue : m.job = j)
            \/ job_table[j].status = PROCESSING)
                ~> (job_table[j].status \in {COMPLETE, FAILED})

\* C25: download_result answers with a document only for a COMPLETE job
\* and the document is the job's object of the clean bucket; for a job in
\* another status it answers with an error and reads no bucket; no read
\* endpoint reads the PHI bucket.
C25_DownloadOnlyComplete ==
    /\ client.endpoint = "download_result" =>
          \A j \in JobIds :
              /\ client.code = 200 =>
                    /\ job_table[j].status = COMPLETE
                    /\ job_table[j].output_key
                    /\ client.read_clean
                    /\ client.body = clean_storage[j]
              /\ job_table[j].status # COMPLETE =>
                    /\ client.code \in {400, 404}
                    /\ ~client.read_clean
                    /\ client.body = NoOutput
    /\ ~client.read_phi

\* A COMPLETE job is downloaded while its input is still in the PHI bucket.
C25_Witness ==
    /\ client.endpoint = "download_result"
    /\ client.code = 200
    /\ client.body.present
    /\ \E j \in JobIds : phi_storage[j] # NoObject

====
